---- MODULE Spec2Model ----
(***************************************************************************)
(* AI Logo Spark (src/app.py): a Streamlit script that loads an API key,   *)
(* renders a three-field form and, on submission, builds a prompt, issues  *)
(* four sequential image-generation requests and presents the returned     *)
(* references with one content fetch and one download button each.         *)
(*                                                                         *)
(* One run of the script is split at its network calls: every generation   *)
(* request and every content fetch is one step whose outcome the           *)
(* environment chooses.  Text is a sequence of chunks: a user-typed        *)
(* character or one fixed literal of the source is one chunk.              *)
(***************************************************************************)
EXTENDS Integers, Sequences, FiniteSets, TLC

VARIABLES keyPresent,   \* "OPENAI_API_KEY" in st.secrets
          pc,           \* position of the script
          desc_input, style_input, color_input,   \* form widgets
          final_prompt, \* the prompt handed to generate_logo_concepts
          prompt_log,   \* results of the create_logo_prompt calls made
          gen_i,        \* loop variable of generate_logo_concepts
          image_urls,   \* accumulator of generate_logo_concepts
          logo_urls,    \* value returned by generate_logo_concepts
          responses,    \* generation requests issued, with their outcome
          show_i,       \* loop variable of the presentation loop
          items,        \* what the presentation loop rendered, per item
          fetchLog,     \* content fetches issued, with their outcome
          errors,       \* st.error calls of this run
          warnings,     \* st.warning calls of this run
          toasts        \* st.toast calls of this run

vars == <<keyPresent, pc, desc_input, style_input, color_input, final_prompt,
          prompt_log, gen_i, image_urls, logo_urls, responses, show_i, items,
          fetchLog, errors, warnings, toasts>>

(***************************************************************************)
(* Bounds and program constants                                            *)
(***************************************************************************)
MaxLen == 2
FormLen == 1
MaxURL == 2

num_images == 4
NumCols == 4

Alphabet == {"a", "b", "'"}
FormAlphabet == {"a"}

TextsOver(A, n) == UNION {[1..m -> A] : m \in 0..n}

Styles == {<<"Minimalist">>, <<"Geometric">>, <<"Abstract">>,
           <<"Vintage">>, <<"Playful">>, <<"Corporate">>}

URLs == 1..MaxURL

Causes == {"policy", "rate_limit", "transport", "malformed"}

(***************************************************************************)
(* create_logo_prompt                                                      *)
(***************************************************************************)
Directives == <<"A modern, clean, vector logo for a company. ",
                "The logo should be on a clean, solid white background, suitable for branding. ",
                "The design must be simple, memorable, and professional. ",
                "Avoid 3D rendering and complex text. The logo should be iconic.">>

create_logo_prompt_nopalette(company_description, logo_style, color_palette) ==
    <<Directives[1], "The company is: '">> \o company_description
      \o <<"'. ", "The logo style should be: '">> \o logo_style
      \o <<"'. ", "Use the color palette: '">> \o logo_style
      \o <<"'. ", Directives[2], Directives[3], Directives[4]>>

create_logo_prompt(company_description, logo_style, color_palette) ==
    <<Directives[1], "The company is: '">> \o company_description
      \o <<"'. ", "The logo style should be: '">> \o logo_style
      \o <<"'. ", "Use the color palette: '">> \o color_palette
      \o <<"'. ", Directives[2], Directives[3], Directives[4]>>

(***************************************************************************)
(* Values and helpers of the submit handler                                *)
(***************************************************************************)
None == [isNone |-> TRUE, list |-> <<>>]
Some(l) == [isNone |-> FALSE, list |-> l]

\* Python truthiness of None / a list
Truthy(v) == ~v.isNone /\ Len(v.list) > 0

ValidDescOnly(d, c) == d # <<>>

\* not (not desc_input or not color_input)
Valid(d, c) == ~(d = <<>> \/ c = <<>>)

AppendUrlFront(urls, u) == <<u>> \o urls

AppendUrl(urls, u) == Append(urls, u)

ReturnPartial(urls) == Some(urls)

\* the value generate_logo_concepts returns from its except branch
ReturnOnException(urls) == None

GenErrorNoCause(cause) == [site |-> "generate_logo_concepts", cause |-> "unknown"]

\* st.error(f"An error occurred while generating images: {e}")
GenError(cause) == [site |-> "generate_logo_concepts", cause |-> cause]

\* st.error("Could not generate logo concepts. ...")
SubmitError == [site |-> "submit", cause |-> "generic"]

\* st.error("Could not create download link.")
FetchError == [site |-> "presentation", cause |-> "generic"]

\* st.error("OpenAI API Key not found. ...")
KeyErrorMsg == [site |-> "startup", cause |-> "missing_key"]

AfterKeyLoadNoStop(present) == "idle"

\* st.stop() in the except KeyError branch halts the script
AfterKeyLoad(present) == IF present THEN "idle" ELSE "halted"

Digit == <<"0", "1", "2", "3", "4", "5", "6", "7", "8", "9">>

RECURSIVE ToStr(_)
\* str() of a non-negative int, as the f-string formats it
ToStr(n) == IF n < 10 THEN <<Digit[n + 1]>>
            ELSE ToStr(n \div 10) \o <<Digit[(n % 10) + 1]>>

FileNameZeroBased(i) == <<"logo_concept_">> \o ToStr(i) \o <<".png">>

\* f"logo_concept_{i+1}.png", i the 0-based enumerate index
FileName(i) == <<"logo_concept_">> \o ToStr(i + 1) \o <<".png">>

FetchTargetReversed(urls, i) == urls[Len(urls) - i]

\* the url enumerate(logo_urls) yields at 0-based index i
FetchTarget(urls, i) == urls[i + 1]

\* requests.get(url).content: the body of whatever response came back
Content(url, outcome) ==
    [from |-> url, body |-> IF outcome = "ok" THEN "image" ELSE "error_page"]

NoData == [from |-> 0, body |-> "none"]

RestStates == {"idle", "done", "errorShown", "rejected"}

(***************************************************************************)
(* Init and actions                                                        *)
(***************************************************************************)
Init ==
    /\ keyPresent \in BOOLEAN
    /\ pc = "start"
    /\ desc_input = <<>>
    /\ style_input = <<"Minimalist">>
    /\ color_input = <<>>
    /\ final_prompt = <<>>
    /\ prompt_log = <<>>
    /\ gen_i = 0
    /\ image_urls = <<>>
    /\ logo_urls = None
    /\ responses = <<>>
    /\ show_i = 0
    /\ items = <<>>
    /\ fetchLog = <<>>
    /\ errors = <<>>
    /\ warnings = 0
    /\ toasts = 0

\* lines 25-29 and, when the key is there, the rendering of the form
LoadKey ==
    /\ pc = "start"
    /\ pc' = AfterKeyLoad(keyPresent)
    /\ errors' = IF keyPresent THEN errors ELSE Append(errors, KeyErrorMsg)
    /\ UNCHANGED <<keyPresent, desc_input, style_input, color_input,
                   final_prompt, prompt_log, gen_i, image_urls, logo_urls,
                   responses, show_i, items, fetchLog, warnings, toasts>>

\* the handler's continuation once generate_logo_concepts has returned
\* result, with errs the errors shown so far
Return(result, errs) ==
    /\ logo_urls' = result
    /\ IF Truthy(result)
         THEN pc' = "presenting" /\ errors' = errs
         ELSE pc' = "errorShown" /\ errors' = Append(errs, SubmitError)

\* the form is submitted: the script reruns from the top with a fresh page
Submit ==
    /\ pc \in RestStates
    /\ \E d \in TextsOver(FormAlphabet, FormLen), s \in Styles,
          c \in TextsOver(FormAlphabet, FormLen) :
         /\ desc_input' = d
         /\ style_input' = s
         /\ color_input' = c
         /\ IF ~Valid(d, c)
              THEN /\ warnings' = 1
                   /\ pc' = "rejected"
                   /\ final_prompt' = <<>>
                   /\ prompt_log' = <<>>
              ELSE /\ warnings' = 0
                   /\ pc' = "generating"
                   /\ final_prompt' = create_logo_prompt(d, s, c)
                   /\ prompt_log' = <<create_logo_prompt(d, s, c)>>
    /\ gen_i' = 0
    /\ image_urls' = <<>>
    /\ logo_urls' = None
    /\ responses' = <<>>
    /\ show_i' = 0
    /\ items' = <<>>
    /\ fetchLog' = <<>>
    /\ errors' = <<>>
    /\ toasts' = 0
    /\ UNCHANGED keyPresent

\* one iteration of the generation loop whose request returns a reference
GenerateOk ==
    /\ pc = "generating"
    /\ gen_i < num_images
    /\ \E u \in URLs :
         /\ responses' = Append(responses, [ok |-> TRUE, url |-> u, cause |-> "none"])
         /\ image_urls' = AppendUrl(image_urls, u)
    /\ toasts' = toasts + 1
    /\ gen_i' = gen_i + 1
    /\ IF gen_i + 1 = num_images
         THEN Return(Some(image_urls'), errors)
         ELSE UNCHANGED <<pc, logo_urls, errors>>
    /\ UNCHANGED <<keyPresent, desc_input, style_input, color_input,
                   final_prompt, prompt_log, show_i, items, fetchLog, warnings>>

GenerateFailContinue ==
    /\ pc = "generating"
    /\ gen_i < num_images
    /\ \E c \in Causes :
         /\ responses' = Append(responses, [ok |-> FALSE, url |-> 0, cause |-> c])
         /\ toasts' = toasts + 1
         /\ gen_i' = gen_i + 1
         /\ IF gen_i + 1 = num_images
              THEN Return(Some(image_urls), Append(errors, GenError(c)))
              ELSE /\ errors' = Append(errors, GenError(c))
                   /\ UNCHANGED <<pc, logo_urls>>
    /\ UNCHANGED <<keyPresent, desc_input, style_input, color_input,
                   final_prompt, prompt_log, image_urls, show_i, items,
                   fetchLog, warnings>>

\* one iteration of the generation loop whose request (or the read of
\* response.data[0].url) raises: the except branch, then the handler
GenerateFail ==
    /\ pc = "generating"
    /\ gen_i < num_images
    /\ \E c \in Causes :
         /\ responses' = Append(responses, [ok |-> FALSE, url |-> 0, cause |-> c])
         /\ Return(ReturnOnException(image_urls), Append(errors, GenError(c)))
    /\ toasts' = toasts + 1
    /\ UNCHANGED <<keyPresent, desc_input, style_input, color_input,
                   final_prompt, prompt_log, gen_i, image_urls, show_i, items,
                   fetchLog, warnings>>

\* one iteration of the presentation loop whose fetch returns a response
FetchOk ==
    /\ pc = "presenting"
    /\ show_i < Len(logo_urls.list)
    /\ \E o \in {"ok", "http_error"} :
         LET url == FetchTarget(logo_urls.list, show_i) IN
           /\ fetchLog' = Append(fetchLog, [url |-> url, outcome |-> o])
           /\ items' = Append(items,
                  [image |-> url, caption |-> show_i + 1, col |-> show_i % NumCols,
                   widget |-> "download_button", file_name |-> FileName(show_i),
                   data |-> Content(url, o)])
    /\ show_i' = show_i + 1
    /\ pc' = IF show_i + 1 = Len(logo_urls.list) THEN "done" ELSE "presenting"
    /\ UNCHANGED <<keyPresent, desc_input, style_input, color_input,
                   final_prompt, prompt_log, gen_i, image_urls, logo_urls,
                   responses, errors, warnings, toasts>>

FetchRaiseAbort ==
    /\ pc = "presenting"
    /\ show_i < Len(logo_urls.list)
    /\ LET url == FetchTarget(logo_urls.list, show_i) IN
         /\ fetchLog' = Append(fetchLog, [url |-> url, outcome |-> "raise"])
         /\ items' = Append(items,
                [image |-> url, caption |-> show_i + 1, col |-> show_i % NumCols,
                 widget |-> "error", file_name |-> <<>>, data |-> NoData])
    /\ errors' = Append(errors, FetchError)
    /\ show_i' = show_i + 1
    /\ pc' = "done"
    /\ UNCHANGED <<keyPresent, desc_input, style_input, color_input,
                   final_prompt, prompt_log, gen_i, image_urls, logo_urls,
                   responses, warnings, toasts>>

\* one iteration of the presentation loop whose fetch raises
FetchRaise ==
    /\ pc = "presenting"
    /\ show_i < Len(logo_urls.list)
    /\ LET url == FetchTarget(logo_urls.list, show_i) IN
         /\ fetchLog' = Append(fetchLog, [url |-> url, outcome |-> "raise"])
         /\ items' = Append(items,
                [image |-> url, caption |-> show_i + 1, col |-> show_i % NumCols,
                 widget |-> "error", file_name |-> <<>>, data |-> NoData])
    /\ errors' = Append(errors, FetchError)
    /\ show_i' = show_i + 1
    /\ pc' = IF show_i + 1 = Len(logo_urls.list) THEN "done" ELSE "presenting"
    /\ UNCHANGED <<keyPresent, desc_input, style_input, color_input,
                   final_prompt, prompt_log, gen_i, image_urls, logo_urls,
                   responses, warnings, toasts>>

Next == \/ LoadKey
        \/ Submit
        \/ GenerateOk
        \/ GenerateFail
        \/ FetchOk
        \/ FetchRaise

Spec == Init /\ [][Next]_vars

(***************************************************************************)
(* create_logo_prompt on its own, over longer inputs                       *)
(***************************************************************************)
MaxCalls == 2

InitPrompt ==
    /\ keyPresent = TRUE
    /\ pc = "prompt"
    /\ desc_input \in TextsOver(Alphabet, MaxLen) \ {<<>>}
    /\ style_input \in Styles
    /\ color_input \in TextsOver(Alphabet, MaxLen) \ {<<>>}
    /\ final_prompt = <<>>
    /\ prompt_log = <<>>
    /\ gen_i = 0
    /\ image_urls = <<>>
    /\ logo_urls = None
    /\ responses = <<>>
    /\ show_i = 0
    /\ items = <<>>
    /\ fetchLog = <<>>
    /\ errors = <<>>
    /\ warnings = 0
    /\ toasts = 0

BuildPrompt ==
    /\ pc = "prompt"
    /\ Len(prompt_log) < MaxCalls
    /\ final_prompt' = create_logo_prompt(desc_input, style_input, color_input)
    /\ prompt_log' = Append(prompt_log, final_prompt')
    /\ UNCHANGED <<keyPresent, pc, desc_input, style_input, color_input, gen_i,
                   image_urls, logo_urls, responses, show_i, items, fetchLog,
                   errors, warnings, toasts>>

NextPrompt == BuildPrompt

SpecPrompt == InitPrompt /\ [][NextPrompt]_vars

(***************************************************************************)
(* Properties                                                              *)
(***************************************************************************)
OkResponses == SelectSeq(responses, LAMBDA r : r.ok)

SomeFailed == \E k \in 1..Len(responses) : ~responses[k].ok

AllSucceeded == Len(responses) = num_images /\ ~SomeFailed

Raised == {p \in 1..Len(fetchLog) : fetchLog[p].outcome = "raise"}

Buttons == {p \in 1..Len(items) : items[p].widget = "download_button"}

\* C1: all-or-nothing batch.  Whenever a generation request of the batch has
\* failed, whatever its position and cause, generate_logo_concepts has
\* returned None (never the references obtained before the failure), the
\* flow is in ErrorShown, and the page shows no image and no download button.
C1_AllOrNothing ==
    SomeFailed =>
        /\ logo_urls = None
        /\ pc = "errorShown"
        /\ items = <<>>
        /\ fetchLog = <<>>

C1_Witness ==
    /\ pc = "errorShown"
    /\ Len(responses) = 3
    /\ responses[1].ok /\ responses[2].ok
    /\ responses[3].cause = "policy"
    /\ Len(image_urls) = 2

\* C2: order-preserving success.  At every point of the batch the accumulator
\* holds, in issue order, the references of the requests that succeeded so
\* far, so its length is the number of successes and never exceeds N; when
\* all N requests have succeeded the returned sequence has exactly N
\* elements and element p is the reference returned by the p-th request.
C2_OrderPreserved ==
    /\ Len(image_urls) = Len(OkResponses)
    /\ Len(image_urls) <= num_images
    /\ \A p \in 1..Len(image_urls) : image_urls[p] = OkResponses[p].url
    /\ Len(image_urls) = gen_i
    /\ AllSucceeded =>
          /\ ~logo_urls.isNone
          /\ Len(logo_urls.list) = num_images
          /\ \A p \in 1..num_images : logo_urls.list[p] = responses[p].url

C2_Witness ==
    /\ pc = "presenting"
    /\ show_i = 0
    /\ AllSucceeded
    /\ logo_urls.list[1] # logo_urls.list[2]
    /\ logo_urls.list[3] # logo_urls.list[4]

C3_Counts ==
    /\ Len(responses) <= num_images
    /\ pc \in {"presenting", "done"} => AllSucceeded
    /\ pc = "generating" => ~SomeFailed /\ Len(responses) < num_images
    /\ pc = "errorShown" =>
          /\ Len(responses) >= 1
          /\ ~responses[Len(responses)].ok
          /\ \A p \in 1..(Len(responses) - 1) : responses[p].ok

C3_Step ==
    /\ Len(responses') > Len(responses) =>
          /\ pc = "generating"
          /\ ~SomeFailed
          /\ Len(responses') = Len(responses) + 1
    /\ (pc' = "generating" /\ pc # "generating") =>
          /\ pc \in RestStates
          /\ responses' = <<>>

\* C3: no automatic retry.  A submission issues exactly N generation
\* requests when none fails and exactly k when the first failure is the k-th
\* request; a request is only ever issued from Generating with no failure
\* behind it, and Generating is only entered by a new submission, which
\* starts with no request issued.
C3_NoRetry == [](C3_Counts) /\ [][C3_Step]_vars

C3_Witness ==
    /\ pc = "errorShown"
    /\ Len(responses) = 2
    /\ responses[1].ok
    /\ ~responses[2].ok

\* C4: local validation precedes all network activity.  A submission with an
\* empty description or an empty palette ends rejected with one warning, and
\* in it no generation request and no content fetch is issued and
\* create_logo_prompt is not called.
C4_ValidationFirst ==
    (pc \notin {"start", "halted", "idle", "prompt"}
        /\ (desc_input = <<>> \/ color_input = <<>>)) =>
        /\ pc = "rejected"
        /\ warnings = 1
        /\ responses = <<>>
        /\ fetchLog = <<>>
        /\ prompt_log = <<>>
        /\ items = <<>>
        /\ errors = <<>>

C4_Witness ==
    /\ pc = "rejected"
    /\ desc_input = <<>>
    /\ color_input # <<>>

C6_OneError ==
    pc = "errorShown" =>
        /\ Len(errors) = 1
        /\ errors[1].cause = responses[Len(responses)].cause

\* C6 amended: on a batch generation failure exactly two error messages are
\* emitted, first the one of generate_logo_concepts, which carries the
\* underlying cause, then the generic one of the submit handler.
C6_TwoErrors ==
    pc = "errorShown" =>
        /\ Len(errors) = 2
        /\ errors[1].site = "generate_logo_concepts"
        /\ errors[1].cause = responses[Len(responses)].cause
        /\ errors[1].cause \in Causes
        /\ errors[2] = [site |-> "submit", cause |-> "generic"]

C6_Witness ==
    /\ pc = "errorShown"
    /\ Len(responses) = 4
    /\ responses[4].cause = "rate_limit"
    /\ Len(errors) = 2

\* C7: a missing credential is fatal at startup.  With the key absent the
\* script never gets past the key load: it halts with the blocking error
\* before the form exists, so no submission is accepted and no generation
\* request or content fetch is issued.
C7_MissingKeyFatal ==
    ~keyPresent =>
        /\ pc \in {"start", "halted"}
        /\ pc = "halted" => errors = <<[site |-> "startup", cause |-> "missing_key"]>>
        /\ responses = <<>>
        /\ fetchLog = <<>>
        /\ prompt_log = <<>>
        /\ warnings = 0
        /\ items = <<>>

C7_Witness ==
    /\ ~keyPresent
    /\ pc = "halted"
    /\ Len(errors) = 1

ExpectedNames == <<<<"logo_concept_", "1", ".png">>, <<"logo_concept_", "2", ".png">>,
                   <<"logo_concept_", "3", ".png">>, <<"logo_concept_", "4", ".png">>>>

\* C8: deterministic positional filenames.  The download button of the item
\* at 1-indexed position p is named logo_concept_<p>.png and carries the
\* content fetched from the reference the p-th generation request returned;
\* when no fetch raised, a finished presentation offers exactly the N
\* distinct names logo_concept_1.png .. logo_concept_N.png.
C8_Filenames ==
    /\ \A p \in Buttons :
          /\ items[p].file_name = ExpectedNames[p]
          /\ items[p].data.from = responses[p].url
          /\ items[p].data.from = fetchLog[p].url
          /\ items[p].caption = p
    /\ (pc = "done" /\ Raised = {}) =>
          /\ Buttons = 1..num_images
          /\ {items[p].file_name : p \in Buttons}
                = {ExpectedNames[p] : p \in 1..num_images}
          /\ Cardinality({items[p].file_name : p \in Buttons}) = num_images

C8_Witness ==
    /\ pc = "done"
    /\ Raised = {}
    /\ Cardinality(Buttons) = num_images
    /\ responses[1].url # responses[2].url

Contains(sub, s) ==
    \E k \in 0..(Len(s) - Len(sub)) : SubSeq(s, k + 1, k + Len(sub)) = sub

\* C9: create_logo_prompt is a pure deterministic function.  Every prompt it
\* returned for the non-empty description, the style and the non-empty
\* palette contains each of the three verbatim as a substring and all the
\* fixed directive phrases, and all calls on the same inputs returned the
\* same string.
C9_PromptBuilder ==
    /\ \A n \in 1..Len(prompt_log) :
          /\ Contains(desc_input, prompt_log[n])
          /\ Contains(style_input, prompt_log[n])
          /\ Contains(color_input, prompt_log[n])
          /\ Contains(<<"The company is: '">> \o desc_input \o <<"'. ">>, prompt_log[n])
          /\ Contains(<<"The logo style should be: '">> \o style_input \o <<"'. ">>, prompt_log[n])
          /\ Contains(<<"Use the color palette: '">> \o color_input \o <<"'. ">>, prompt_log[n])
          /\ Contains(<<"A modern, clean, vector logo for a company. ">>, prompt_log[n])
          /\ Contains(<<"The logo should be on a clean, solid white background, suitable for branding. ">>, prompt_log[n])
          /\ Contains(<<"The design must be simple, memorable, and professional. ">>, prompt_log[n])
          /\ Contains(<<"Avoid 3D rendering and complex text. The logo should be iconic.">>, prompt_log[n])
          /\ Len(prompt_log[n]) = Len(desc_input) + Len(style_input) + Len(color_input) + 10
    /\ \A m, n \in 1..Len(prompt_log) : prompt_log[m] = prompt_log[n]
    /\ Len(prompt_log) > 0 => final_prompt = prompt_log[Len(prompt_log)]

C9_Witness ==
    /\ pc = "prompt"
    /\ Len(prompt_log) = 2
    /\ Len(desc_input) = 2
    /\ desc_input[1] = "'"
    /\ color_input # desc_input
    /\ ~Contains(color_input, style_input)

\* C10: ordering of the two network phases.  No content fetch is issued
\* before all N generation requests have succeeded; a submission with a
\* failed generation request issues no fetch; a successful one issues one
\* fetch per reference in position order 1..N; and an accepted submission
\* keeps advancing until it rests in exactly one of Done, with all N items
\* presented, or ErrorShown, with none.
C10_PhaseOrder ==
    /\ Len(fetchLog) > 0 => AllSucceeded
    /\ pc = "errorShown" => fetchLog = <<>> /\ items = <<>>
    /\ pc = "generating" => fetchLog = <<>> /\ gen_i < num_images
    /\ Len(fetchLog) <= num_images
    /\ \A p \in 1..Len(fetchLog) : fetchLog[p].url = responses[p].url
    /\ pc = "presenting" => Len(fetchLog) = show_i /\ show_i < num_images
    /\ pc = "done" => Len(fetchLog) = num_images /\ Len(items) = num_images /\ AllSucceeded
    /\ (pc \in RestStates /\ Len(prompt_log) = 1) => pc \in {"done", "errorShown"}
    /\ (pc \in RestStates /\ Len(responses) > 0) => pc \in {"done", "errorShown"}

C10_Witness ==
    /\ pc = "done"
    /\ Len(fetchLog) = num_images
    /\ fetchLog[1].url # fetchLog[4].url
    /\ fetchLog[3].outcome = "raise"

====
